---- MODULE Spec2Model ----
(***************************************************************************)
(* Summit check-in and occupancy tracker (src/app.py).                     *)
(*                                                                         *)
(* Text values that the code trims, lower-cases or inspects (names,        *)
(* e-mails, the nearby field) are sequences of one-character strings.      *)
(* Room codes and sessions are only compared, so they are plain strings,   *)
(* with StrRank giving their lexicographic order for sort_values.          *)
(***************************************************************************)
EXTENDS Integers, Sequences, FiniteSets, TLC

VARIABLES ledger, nextId, clock, rooms_df, sess, occ, last, call

vars == <<ledger, nextId, clock, rooms_df, sess, occ, last, call>>

(* ------------------------------ bounds --------------------------------- *)
MaxId == 3
MaxRecId == 2
MaxClock == 1
MaxRows == 11

None == "None"

(* ------------------------- string primitives --------------------------- *)
IsSpace(c) == c \in {" ", "\t"}

LowerChar(c) ==
  CASE c = "X" -> "x"
    [] c = "Y" -> "y"
    [] c = "U" -> "u"
    [] c = "C" -> "c"
    [] c = "R" -> "r"
    [] c = "E" -> "e"
    [] c = "D" -> "d"
    [] OTHER -> c

Lower(s) == [i \in 1..Len(s) |-> LowerChar(s[i])]

RECURSIVE LStrip(_)
LStrip(s) == IF s # <<>> /\ IsSpace(Head(s)) THEN LStrip(Tail(s)) ELSE s

RECURSIVE RStrip(_)
RStrip(s) ==
  IF s # <<>> /\ IsSpace(s[Len(s)]) THEN RStrip(SubSeq(s, 1, Len(s) - 1)) ELSE s

Strip(s) == RStrip(LStrip(s))

EndsWith(s, suffix) ==
  /\ Len(s) >= Len(suffix)
  /\ SubSeq(s, Len(s) - Len(suffix) + 1, Len(s)) = suffix

Contains(s, c) == \E i \in 1..Len(s) : s[i] = c

(* str.split("|") *)
RECURSIVE SplitFrom(_, _, _)
SplitFrom(s, i, cur) ==
  IF i > Len(s) THEN <<cur>>
  ELSE IF s[i] = "|" THEN <<cur>> \o SplitFrom(s, i + 1, <<>>)
  ELSE SplitFrom(s, i + 1, Append(cur, s[i]))

Split(s) == SplitFrom(s, 1, <<>>)

(* ------------------------------ inputs --------------------------------- *)
UCR == <<"@", "u", "c", "r", ".", "e", "d", "u">>

EmailXY  == <<"x", "y">> \o UCR
EmailXYU == <<" ", "X", "Y", "@", "U", "C", "R", ".", "E", "D", "U", " ">>
EmailZW  == <<"z", "w">> \o UCR
EmailZWU == <<"z", "w", "@", "U", "c", "r", ".", "e", "d", "u">>
EmailQV  == <<"q", "v">> \o UCR
EmailX   == <<"x">> \o UCR
EmailGm  == <<"x", "y", "@", "g", "m", ".", "c", "o", "m">>
EmailSp  == <<"x", " ", "y">> \o UCR
EmailWs  == <<" ">>

Emails == {EmailXY, EmailXYU, EmailZW, EmailQV, EmailX, EmailGm, EmailSp, EmailWs, <<>>}

Names == {<<" ", "A">>, <<" ">>}

Attendings == {"Yes", "No"}

(* the ?room=..&session=.. query parameters of a request ("" when absent) *)
QueryParams ==
  {<<"R1", "S1">>, <<"R2", "S1">>, <<"R1", "S2">>, <<"R2", "S2">>, <<"R9", "S1">>,
   <<"", "S1">>, <<"R1", "">>}

(* lexicographic order of the room codes and sessions in use *)
StrRank(s) ==
  CASE s = ""   -> 0
    [] s = "R1" -> 1
    [] s = "R2" -> 2
    [] s = "R9" -> 3
    [] s = "S1" -> 4
    [] s = "S2" -> 5
    [] OTHER    -> 6

(* --------------------------- room catalog ------------------------------ *)
NearbyR2 == <<"R", "2", "|", " ", "|">>
NearbyR1 == <<" ", "R", "1", " ", "|", "R", "9">>

CsvSmall ==
  [exists |-> TRUE, has_nearby |-> TRUE,
   rows |-> << [room_code |-> "R2", session |-> "S1", max_capacity |-> 2, nearby |-> NearbyR1],
               [room_code |-> "R1", session |-> "S2", max_capacity |-> 1, nearby |-> <<>>],
               [room_code |-> "R1", session |-> "S1", max_capacity |-> 1, nearby |-> NearbyR2] >>]

CsvBig ==
  [exists |-> TRUE, has_nearby |-> FALSE,
   rows |-> << [room_code |-> "R1", session |-> "S2", max_capacity |-> 3],
               [room_code |-> "R2", session |-> "S1", max_capacity |-> 11],
               [room_code |-> "R1", session |-> "S1", max_capacity |-> 10] >>]

CsvMissing == [exists |-> FALSE, has_nearby |-> FALSE, rows |-> <<>>]

load_rooms(csv) ==
  IF ~csv.exists THEN <<>>
  ELSE IF csv.has_nearby THEN csv.rows
  ELSE [i \in 1..Len(csv.rows) |->
          [room_code |-> csv.rows[i].room_code, session |-> csv.rows[i].session,
           max_capacity |-> csv.rows[i].max_capacity, nearby |-> <<>>]]

(* ------------------------------ ledger --------------------------------- *)
USE_SHEETS == FALSE

read_checkins == ledger

clean_email_of(email) == Lower(Strip(email))

clean_name_of(name) == Strip(name)

(* variant: the DELETE is missing, so earlier rows of the e-mail stay *)
delete_by_email_keepall(rows, email) == rows

(* DELETE FROM checkins WHERE email = ? *)

delete_by_email(rows, email) ==
  LET Keep(r) == r.email # email IN SelectSeq(rows, Keep)

insert_row(rows, id, now, name, email, attending, room, session) ==
  Append(rows, [id |-> id, ts_utc |-> now, name |-> name, email |-> email,
                attending |-> attending, room |-> room, session |-> session])

(* variant: the DELETE uses the e-mail as typed, not clean_email *)
upsert_rows_rawdelete(rows, id, now, name, email, attending, room, session) ==
  insert_row(delete_by_email(rows, email), id, now,
             clean_name_of(name), clean_email_of(email), attending, room, session)

upsert_rows(rows, id, now, name, email, attending, room, session) ==
  insert_row(delete_by_email(rows, clean_email_of(email)), id, now,
             clean_name_of(name), clean_email_of(email), attending, room, session)

NormEmails == {clean_email_of(e) : e \in Emails}

(* how a call relates to the same e-mail's previous call, and whether it *)
(* spelled the e-mail other than the ledger stores it (history only)     *)
CallKind(prev, email, room, session, attending) ==
  [kind |-> IF prev = <<>> THEN "new"
            ELSE IF prev[1].room # room \/ prev[1].session # session THEN "move"
            ELSE IF prev[1].attending # attending THEN "flip"
            ELSE "replay",
   respelled |-> email # Lower(Strip(email))]

NoCall == [kind |-> "", respelled |-> FALSE]

(* upsert_checkin: one transaction; sheet_upsert returns at once (USE_SHEETS off). *)
(* last and call are history: each e-mail's latest call, and the latest call's kind *)
upsert_checkin(name, email, attending, room, session) ==
  /\ ledger' = upsert_rows(ledger, nextId, clock, name, email, attending, room, session)
  /\ nextId' = nextId + 1
  /\ last' = [last EXCEPT ![clean_email_of(email)] =
                <<[room |-> room, session |-> session, attending |-> attending]>>]
  /\ call' = CallKind(last[clean_email_of(email)], email, room, session, attending)

(* ------------------------ occupancy reconciler ------------------------- *)
Truthy(s) == s \notin {None, ""}

RowLE(a, b) ==
  \/ StrRank(a.session) < StrRank(b.session)
  \/ /\ a.session = b.session
     /\ StrRank(a.room_code) <= StrRank(b.room_code)

(* stable insertion of r into a sequence already sorted by (session, room_code) *)
RECURSIVE InsertSorted(_, _)
InsertSorted(sorted, r) ==
  IF sorted = <<>> THEN <<r>>
  ELSE IF RowLE(sorted[Len(sorted)], r) THEN Append(sorted, r)
  ELSE Append(InsertSorted(SubSeq(sorted, 1, Len(sorted) - 1), r), sorted[Len(sorted)])

RECURSIVE sort_values(_)
sort_values(df) ==
  IF df = <<>> THEN <<>>
  ELSE InsertSorted(sort_values(SubSeq(df, 1, Len(df) - 1)), df[Len(df)])

(* variant: the session filter is ignored *)
with_filter_nofilter(df, session_filter) == sort_values(df)

with_filter_and_sort(df, session_filter) ==
  LET Match(r) == r.session = session_filter
      out == IF Truthy(session_filter) THEN SelectSeq(df, Match) ELSE df
  IN sort_values(out)

(* 0.9 * max_capacity is a double; for the capacities in use the product     *)
(* rounds to the exact value of 9*max/10 when that is an integer and stays   *)
(* strictly between two integers otherwise, so the comparison with the       *)
(* integer count is the comparison 10*current >= 9*max_capacity.             *)
(* variant: the ALMOST FULL test comes before the FULL test *)
status_almost_first(current, max_capacity) ==
  IF 10 * current >= 9 * max_capacity THEN "ALMOST FULL"
  ELSE IF current >= max_capacity THEN "FULL"
  ELSE "OPEN"

(* variant: the thresholds are exclusive *)
status_strict(current, max_capacity) ==
  IF current > max_capacity THEN "FULL"
  ELSE IF 10 * current > 9 * max_capacity THEN "ALMOST FULL"
  ELSE "OPEN"

status_of(current, max_capacity) ==
  IF current >= max_capacity THEN "FULL"
  ELSE IF 10 * current >= 9 * max_capacity THEN "ALMOST FULL"
  ELSE "OPEN"

OccRow(r, current, status) ==
  [room_code |-> r.room_code, session |-> r.session, max_capacity |-> r.max_capacity,
   nearby |-> r.nearby, current |-> current, status |-> status]

(* variant: No rows are counted too *)
yes_rows_all(df) == df

yes_rows(df) ==
  LET IsYes(r) == r.attending = "Yes" IN SelectSeq(df, IsYes)

occupancy_counts(df_checkins, rooms, session_filter) ==
  LET base == [i \in 1..Len(rooms) |-> OccRow(rooms[i], 0, "OPEN")]
      data == yes_rows(df_checkins)
      keys == {<<data[i].room, data[i].session>> : i \in 1..Len(data)}
      grouped == [k \in keys |->
                    Cardinality({i \in 1..Len(data) : <<data[i].room, data[i].session>> = k})]
      cur(r) == IF <<r.room_code, r.session>> \in keys
                THEN grouped[<<r.room_code, r.session>>] ELSE 0
      merged == [i \in 1..Len(rooms) |->
                   OccRow(rooms[i], cur(rooms[i]), status_of(cur(rooms[i]), rooms[i].max_capacity))]
  IN IF df_checkins = <<>> THEN with_filter_and_sort(base, session_filter)
     ELSE with_filter_and_sort(merged, session_filter)

nearby_list(nearby_str) ==
  LET parts == Split(nearby_str)
      NonEmpty(x) == Strip(x) # <<>>
      kept == SelectSeq(parts, NonEmpty)
  IN [i \in 1..Len(kept) |-> Strip(kept[i])]

(* --------------------------- roles / modes ----------------------------- *)
ADMIN_KEY == "k"

Modes == {"checkin", "dashboard", "admin", "other"}

Keys == {"", "k", "bad"}

is_admin_of(mode, provided_key) ==
  mode = "admin" /\ ADMIN_KEY # "" /\ provided_key = ADMIN_KEY

allowed_labels(mode, provided_key) ==
  CASE mode = "checkin"   -> {"Check-in"}
    [] mode = "dashboard" -> {"Check-in", "Dashboard", "QR Links"}
    [] mode = "admin"     -> IF is_admin_of(mode, provided_key)
                             THEN {"Check-in", "Dashboard", "QR Links", "Admin"}
                             ELSE {"Check-in"}
    [] OTHER              -> {"Check-in"}

(* ---------------------------- check-in tab ---------------------------- *)
Procs == {"a", "b"}

SeqEmails == {EmailXY, EmailXYU, EmailZW, EmailQV, EmailGm, EmailWs}

EmailsOf(p) ==
  IF p = "a" THEN {EmailXY, EmailXYU, EmailX, EmailGm, <<>>}
  ELSE {EmailZW, EmailZWU, EmailSp, EmailWs}

IdleSess(msg) ==
  [pc |-> "idle", room |-> "", session |-> "", valid_pair |-> FALSE,
   this_row |-> <<>>, banner |-> <<>>, msg |-> msg]

valid_pair_of(room, session) ==
  /\ rooms_df # <<>>
  /\ room # ""
  /\ session # ""
  /\ \E i \in 1..Len(rooms_df) :
        rooms_df[i].room_code = room /\ rooms_df[i].session = session

(* lines 186-211 of the script run: query params, valid_pair, this_row, banner *)
this_row_of(dfc, room, session) ==
  LET occ_df == IF session # "" THEN occupancy_counts(dfc, rooms_df, session) ELSE <<>>
      IsRoom(r) == r.room_code = room
      m == SelectSeq(occ_df, IsRoom)
  IN IF m # <<>> THEN <<m[1]>> ELSE <<>>

LoadResult(dfc, room, session) ==
  LET this_row == this_row_of(dfc, room, session)
  IN [pc |-> "loaded", room |-> room, session |-> session,
      valid_pair |-> valid_pair_of(room, session),
      this_row |-> this_row,
      banner |-> IF this_row # <<>> /\ this_row[1].status = "FULL"
                 THEN <<nearby_list(this_row[1].nearby)>> ELSE <<>>,
      msg |-> ""]

(* variant: no e-mail policy *)
valid_email_any(e) == TRUE

valid_email(e) ==
  LET c == Lower(Strip(e))
  IN EndsWith(c, UCR) /\ ~Contains(c, " ") /\ Contains(c, "@") /\ Len(c) >= 10

(* variant: the FULL branch is missing *)
submit_outcome_nogate(ctx, name, email, attending) ==
  IF Strip(name) = <<>> \/ Strip(email) = <<>> THEN "need_name_email"
  ELSE IF ~valid_email(email) THEN "bad_email"
  ELSE "ok"

(* lines 231-239: which branch of the submit handler runs *)
submit_outcome(ctx, name, email, attending) ==
  IF Strip(name) = <<>> \/ Strip(email) = <<>> THEN "need_name_email"
  ELSE IF ~valid_email(email) THEN "bad_email"
  ELSE IF ctx.this_row # <<>> /\ ctx.this_row[1].status = "FULL" /\ attending = "Yes"
       THEN "full"
  ELSE "ok"

(* the run ends without a write; msg is what the page shows *)
Render(p, msg) ==
  /\ sess' = [sess EXCEPT ![p] = IdleSess(msg)]
  /\ UNCHANGED <<ledger, nextId, clock, rooms_df, occ, last, call>>

(* lines 230-239: the button was clicked *)
SubmitClick(p, ctx, name, email, attending) ==
  /\ nextId <= MaxId
  /\ \E out \in {submit_outcome(ctx, name, email, attending)} :
       /\ IF out = "ok"
          THEN upsert_checkin(name, email, attending, ctx.room, ctx.session)
          ELSE UNCHANGED <<ledger, nextId, last, call>>
       /\ sess' = [sess EXCEPT ![p] = IdleSess(out)]
       /\ UNCHANGED <<clock, rooms_df, occ>>

(* lines 213-239: without a valid pair the form has no button; with one, the *)
(* button is clicked or not, and the field values matter only when it is     *)
FormStep(p, ctx, emails) ==
  IF ~ctx.valid_pair THEN Render(p, "warn_pair")
  ELSE \/ Render(p, "")
       \/ \E name \in Names, email \in emails, attending \in Attendings :
            SubmitClick(p, ctx, name, email, attending)

(* ------------------------------ actions -------------------------------- *)
(* a script run up to the form: reads the ledger and computes this_row *)
Load(p, room, session) ==
  /\ sess[p].pc = "idle"
  /\ sess' = [sess EXCEPT ![p] = LoadResult(read_checkins, room, session)]
  /\ UNCHANGED <<ledger, nextId, clock, rooms_df, occ, last, call>>

(* the rest of that script run: the form and its submit handler *)
Submit(p) ==
  /\ sess[p].pc = "loaded"
  /\ FormStep(p, sess[p], EmailsOf(p))

(* a whole script run with no other request in between *)
CheckinRequest(room, session) ==
  /\ sess["a"].pc = "idle"
  /\ \E ctx \in {LoadResult(read_checkins, room, session)} :
        FormStep("a", ctx, SeqEmails)

(* a direct call of upsert_checkin (record) *)
RecordCall(name, email, attending, room, session) ==
  /\ nextId <= MaxRecId
  /\ upsert_checkin(name, email, attending, room, session)
  /\ UNCHANGED <<clock, rooms_df, sess, occ>>

(* admin tab: os.remove(DB_PATH); init_db() *)
AdminReset(mode, key) ==
  /\ "Admin" \in allowed_labels(mode, key)
  /\ is_admin_of(mode, key)
  /\ ledger' = <<>>
  /\ nextId' = 1
  /\ last' = [e \in DOMAIN last |-> <<>>]
  /\ call' = NoCall
  /\ UNCHANGED <<clock, rooms_df, sess, occ>>

(* dashboard tab: session pick, read_checkins, occupancy_counts (search box *)
(* left at its default "")                                                  *)
session_choices == {"All"} \cup {rooms_df[i].session : i \in 1..Len(rooms_df)}

Dashboard(mode, key, pick) ==
  /\ "Dashboard" \in allowed_labels(mode, key)
  /\ rooms_df # <<>>
  /\ pick \in session_choices
  /\ occ' = <<[pick |-> pick,
               rows |-> occupancy_counts(read_checkins, rooms_df,
                                         IF pick = "All" THEN None ELSE pick)]>>
  /\ UNCHANGED <<ledger, nextId, clock, rooms_df, sess, last, call>>

(* datetime.utcnow() advances *)
Tick ==
  /\ clock < MaxClock
  /\ clock' = clock + 1
  /\ UNCHANGED <<ledger, nextId, rooms_df, sess, occ, last, call>>

(* --------------------------- specifications ---------------------------- *)
InitWith(csvs) ==
  /\ ledger = <<>>
  /\ nextId = 1
  /\ clock = 0
  /\ rooms_df \in {load_rooms(c) : c \in csvs}
  /\ sess = [p \in Procs |-> IdleSess("")]
  /\ occ = <<>>
  /\ last = [e \in NormEmails |-> <<>>]
  /\ call = NoCall

Init == InitWith({CsvSmall, CsvMissing})

AdminStep == \E mode \in Modes, key \in Keys : AdminReset(mode, key)

(* check-in requests of two browser sessions, interleaved; ts_utc is written *)
(* and never read by the check-in tab, so the clock stands still here       *)
LoadStep == \E p \in Procs, q \in QueryParams : Load(p, q[1], q[2])

SubmitStep == \E p \in Procs : Submit(p)

Next == LoadStep \/ SubmitStep \/ AdminStep

Spec == Init /\ [][Next]_vars

(* check-in requests processed one at a time *)
RequestStep == \E q \in QueryParams : CheckinRequest(q[1], q[2])

NextSeq == RequestStep \/ AdminStep

SpecSeq == Init /\ [][NextSeq]_vars

(* direct record calls, with any arguments *)
RecordEmails == {EmailXY, EmailXYU, EmailZW, EmailX}

RecordNames == {<<" ", "A">>}

RecordPlaces == {<<"R1", "S1">>, <<"R2", "S1">>, <<"R2", "S2">>}

RecordStep ==
  \E name \in RecordNames, email \in RecordEmails, attending \in Attendings,
     q \in RecordPlaces :
    RecordCall(name, email, attending, q[1], q[2])

NextRecord == RecordStep \/ AdminStep \/ Tick

InitRecord == InitWith({CsvSmall})

SpecRecord == InitRecord /\ [][NextRecord]_vars

(* the dashboard over ledgers of up to MaxRows attendees *)
Letters == <<"a", "b", "c", "d", "e", "f", "g", "h", "i", "j", "k", "l", "m", "n">>

AttendeeEmail(i) == <<Letters[i], "y">> \o UCR

FamilyPlaces == {<<"R1", "S1">>, <<"R2", "S1">>, <<"R1", "S2">>, <<"R2", "S2">>}

(* n attendees: the first k said Yes at place p, the others said a at place q *)
MkLedger(n, k, p, q, a) ==
  [i \in 1..n |->
     [id |-> i, ts_utc |-> 0, name |-> <<"A">>, email |-> AttendeeEmail(i),
      attending |-> IF i <= k THEN "Yes" ELSE a,
      room |-> IF i <= k THEN p[1] ELSE q[1],
      session |-> IF i <= k THEN p[2] ELSE q[2]]]

InitOcc ==
  /\ \E n \in 0..MaxRows : \E k \in 0..n : \E p, q \in FamilyPlaces : \E a \in Attendings :
        /\ ledger = MkLedger(n, k, p, q, a)
        /\ nextId = n + 1
  /\ clock = 0
  /\ rooms_df \in {load_rooms(c) : c \in {CsvBig, CsvSmall}}
  /\ sess = [p \in Procs |-> IdleSess("")]
  /\ occ = <<>>
  /\ last = [e \in NormEmails |-> <<>>]
  /\ call = NoCall

DashStep == \E mode \in Modes, key \in Keys, pick \in {"All", "S1", "S2"} : Dashboard(mode, key, pick)

SpecOcc == InitOcc /\ [][DashStep]_vars

(* ------------------------------ claims --------------------------------- *)
YesCount(rows, room, session) ==
  Cardinality({i \in 1..Len(rows) :
                 rows[i].attending = "Yes" /\ rows[i].room = room /\ rows[i].session = session})

InCatalog(room, session) ==
  \E i \in 1..Len(rooms_df) : rooms_df[i].room_code = room /\ rooms_df[i].session = session

FullAt(rows, room, session) ==
  \E i \in 1..Len(rooms_df) :
     /\ rooms_df[i].room_code = room
     /\ rooms_df[i].session = session
     /\ YesCount(rows, room, session) >= rooms_df[i].max_capacity

(* a step that wrote a row: the new row is the last one of the table *)
Wrote == ledger' # ledger /\ ledger' # <<>>

NewRow == ledger'[Len(ledger')]

OccAll == occupancy_counts(ledger, rooms_df, None)

(* C1: the ledger never holds two rows whose e-mails are equal after trimming *)
(* and lower-casing.                                                         *)
C1_OneRowPerEmail ==
  \A i, j \in 1..Len(ledger) :
     Lower(Strip(ledger[i].email)) = Lower(Strip(ledger[j].email)) => i = j

(* a second record call for xy@ucr.edu, spelled with capitals and surrounding *)
(* blanks, replaced the row of the first: one row, with the second id         *)
C1_Witness ==
  /\ Len(ledger) = 1
  /\ ledger[1].id = 2
  /\ ledger[1].email = EmailXY
  /\ call.kind \in {"replay", "move", "flip"}
  /\ call.respelled

(* C2: computeOccupancy counts each e-mail only where its most recent record *)
(* call put it, and only if that call said Yes: every entry's current is the *)
(* number of e-mails whose latest call was Yes for that room and session.    *)
C2_LatestCallOnly ==
  /\ Len(OccAll) = Len(rooms_df)
  /\ \A j \in 1..Len(OccAll) :
        OccAll[j].current =
          Cardinality({e \in DOMAIN last :
                         /\ last[e] # <<>>
                         /\ last[e][1].attending = "Yes"
                         /\ last[e][1].room = OccAll[j].room_code
                         /\ last[e][1].session = OccAll[j].session})

(* x@ucr.edu was moved by a second call to R2/S1: R1/S1 shows 0, R2/S1 shows 1 *)
C2_Witness ==
  /\ call.kind = "move"
  /\ Len(ledger) = 1
  /\ ledger[1].email = EmailX
  /\ last[EmailX] = <<[room |-> "R2", session |-> "S1", attending |-> "Yes"]>>
  /\ \E j \in 1..Len(OccAll) :
        OccAll[j].room_code = "R1" /\ OccAll[j].session = "S1" /\ OccAll[j].current = 0
  /\ \E j \in 1..Len(OccAll) :
        OccAll[j].room_code = "R2" /\ OccAll[j].session = "S1" /\ OccAll[j].current = 1

(* C3: every entry the dashboard shows has current equal to the number of Yes *)
(* rows of the ledger for that room and session; No rows add nothing.         *)
C3_CurrentCountsYesRows ==
  occ # <<>> =>
    \A j \in 1..Len(occ[1].rows) :
       occ[1].rows[j].current =
         YesCount(ledger, occ[1].rows[j].room_code, occ[1].rows[j].session)

(* a dashboard read over a ledger with Yes rows and No rows in one room *)
C3_Witness ==
  /\ occ # <<>>
  /\ \E j \in 1..Len(occ[1].rows) :
        /\ occ[1].rows[j].current = 2
        /\ \E i \in 1..Len(ledger) :
              /\ ledger[i].attending = "No"
              /\ ledger[i].room = occ[1].rows[j].room_code
              /\ ledger[i].session = occ[1].rows[j].session

(* C4: status is FULL when current >= max_capacity, else ALMOST FULL when    *)
(* 10*current >= 9*max_capacity, else OPEN; with max_capacity 10, 8 Yes rows *)
(* give OPEN, 9 give ALMOST FULL and 10 give FULL.                           *)
C4_StatusThresholds ==
  occ # <<>> =>
    \A j \in 1..Len(occ[1].rows) :
       LET r == occ[1].rows[j]
           n == YesCount(ledger, r.room_code, r.session)
       IN /\ (r.current >= r.max_capacity) => r.status = "FULL"
          /\ (r.current < r.max_capacity /\ 10 * r.current >= 9 * r.max_capacity)
               => r.status = "ALMOST FULL"
          /\ (10 * r.current < 9 * r.max_capacity) => r.status = "OPEN"
          /\ (r.max_capacity = 10 /\ n = 8) => r.status = "OPEN"
          /\ (r.max_capacity = 10 /\ n = 9) => r.status = "ALMOST FULL"
          /\ (r.max_capacity = 10 /\ n = 10) => r.status = "FULL"

(* the dashboard shows the room of capacity 10 with 9 Yes rows *)
C4_Witness ==
  /\ occ # <<>>
  /\ \E j \in 1..Len(occ[1].rows) :
        /\ occ[1].rows[j].max_capacity = 10
        /\ occ[1].rows[j].current = 9
        /\ occ[1].rows[j].status = "ALMOST FULL"

(* C5: a submission with attending Yes for a room whose status from the      *)
(* ledger at that request is FULL writes nothing: no step writes a Yes row   *)
(* for a room that was FULL before it, and a request answered "already FULL" *)
(* leaves the ledger as it was.                                              *)
C5_FullRejectsYes ==
  [][ /\ Wrote => ~(NewRow.attending = "Yes" /\ FullAt(ledger, NewRow.room, NewRow.session))
      /\ ( sess' # sess /\ sess'["a"].msg = "full" ) => ledger' = ledger ]_vars

(* a Yes submission was answered "already FULL" while that room held its fill *)
C5_Witness ==
  /\ sess["a"].msg = "full"
  /\ FullAt(ledger, "R2", "S1")
  /\ YesCount(ledger, "R2", "S1") = 2

(* C6: without a session filter the result holds every catalog entry exactly *)
(* once, zero check-ins or not; with a filter it holds exactly the entries   *)
(* of that session.                                                          *)
C6_EntriesExactlyOnce ==
  occ # <<>> =>
    LET rows == occ[1].rows
        pick == occ[1].pick
        wanted == {i \in 1..Len(rooms_df) : pick = "All" \/ rooms_df[i].session = pick}
    IN /\ Len(rows) = Cardinality(wanted)
       /\ \A i \in wanted :
             Cardinality({j \in 1..Len(rows) :
                            /\ rows[j].room_code = rooms_df[i].room_code
                            /\ rows[j].session = rooms_df[i].session
                            /\ rows[j].max_capacity = rooms_df[i].max_capacity}) = 1
       /\ (pick # "All" => \A j \in 1..Len(rows) : rows[j].session = pick)

(* a filtered read that left an entry out and kept one with no check-ins *)
C6_Witness ==
  /\ occ # <<>>
  /\ occ[1].pick = "S1"
  /\ Len(occ[1].rows) = 2
  /\ Len(rooms_df) = 3
  /\ ledger # <<>>
  /\ \E j \in 1..2 : occ[1].rows[j].current = 0

(* C7: a request whose pair is not in the catalog, whose name or e-mail is   *)
(* empty after trimming, or whose e-mail does not end with @ucr.edu writes   *)
(* nothing; every row of the ledger has a (room, session) of the catalog.    *)
C7_InvalidRequestsWriteNothing ==
  /\ [](\A i \in 1..Len(ledger) : InCatalog(ledger[i].room, ledger[i].session))
  /\ [][ /\ Wrote => ( /\ InCatalog(NewRow.room, NewRow.session)
                        /\ NewRow.name # <<>>
                        /\ NewRow.email # <<>>
                        /\ EndsWith(NewRow.email, UCR) )
         /\ ( sess' # sess /\ sess'["a"].msg \in {"warn_pair", "need_name_email", "bad_email"} )
              => ledger' = ledger ]_vars

(* a request with a non-@ucr.edu e-mail was turned away from a non-empty ledger *)
C7_Witness ==
  /\ sess["a"].msg = "bad_email"
  /\ ledger # <<>>

(* C8: a record call that repeats the previous call for the same e-mail (same *)
(* room, session and attending) leaves every entry's current and status as    *)
(* they were.                                                                 *)
C8_ReplayKeepsOccupancy ==
  [][ ( Wrote /\ call'.kind = "replay" )
        => occupancy_counts(ledger', rooms_df', None) = occupancy_counts(ledger, rooms_df, None) ]_vars

(* a Yes call was repeated for an attendee counted in a catalog room *)
C8_Witness ==
  /\ call.kind = "replay"
  /\ \E j \in 1..Len(OccAll) : OccAll[j].current >= 1

(* C9: with requests processed one at a time, no catalog entry ever has more *)
(* Yes rows than its max_capacity.                                           *)
C9_CapacityRespected ==
  \A i \in 1..Len(rooms_df) :
     YesCount(ledger, rooms_df[i].room_code, rooms_df[i].session) <= rooms_df[i].max_capacity

(* a move through the form filled the room of capacity 2 *)
C9_Witness ==
  /\ call.kind = "move"
  /\ sess["a"].msg = "ok"
  /\ YesCount(ledger, "R2", "S1") = 2
  /\ ledger[Len(ledger)].room = "R2"

(* C10: with two requests interleaved, no catalog entry ever has more Yes    *)
(* rows than its max_capacity.                                               *)
C10_CapacityRespectedConcurrent ==
  ~ \E i \in 1..Len(rooms_df) :
       YesCount(ledger, rooms_df[i].room_code, rooms_df[i].session) > rooms_df[i].max_capacity

====
